---- MODULE Spec2Model ----
(***************************************************************************)
(* Model of libbpf-cargo's skeleton generator (libbpf-cargo/src/gen.rs).   *)
(*                                                                         *)
(* Text is modelled as a sequence of one-character strings, so that        *)
(* `ends_with` is a real suffix test.  Generated Rust source is modelled   *)
(* as a sequence of syntax items (one record per emitted struct, method,   *)
(* field or builder call), in emission order.                              *)
(***************************************************************************)
EXTENDS Integers, Sequences, FiniteSets, TLC

VARIABLES
    pc,            \* position of the running entry point ("idle" before a call)
    map,           \* the bpf_map handed to the map helpers
    cls,           \* what the map helpers returned for `map`
    obj_file,      \* gen_single: the object file given with --object
    to_gen,        \* gen_project: Vec<UnprocessedObj> returned by metadata::get
    debug,         \* the --debug flag
    i,             \* gen_project: position of the loop over to_gen / package_objs
    package_objs,  \* gen_project: BTreeMap package -> Vec<UnprocessedObj>
    files,         \* the file system: path -> contents written
    stdout,        \* text printed to standard output
    handles,       \* bpf_object handles opened and not closed
    status,        \* the i32 returned by gen (-1 while running)
    mods_arg,      \* argument of a direct call of the public gen_mods
    skel,          \* the generated module the lifecycle below runs
    lstate,        \* which generated type the caller currently owns
    links,         \* the `links` field of the loaded skeleton
    attached,      \* link pointers libbpf held after the last attach that returned 0
    call           \* the last entry point or generated method called, with what
                   \* the callee it relies on returned

vars == <<pc, map, cls, obj_file, to_gen, debug, i, package_objs, files, stdout,
          handles, status, mods_arg, skel, lstate, links, attached, call>>

(***************************************************************************)
(* Text                                                                    *)
(***************************************************************************)
S_data == <<".", "d", "a", "t", "a">>
S_rodata == <<".", "r", "o", "d", "a", "t", "a">>
S_bss == <<".", "b", "s", "s">>
S_kconfig == <<".", "k", "c", "o", "n", "f", "i", "g">>
S_foo == <<".", "f", "o", "o">>

\* str::ends_with
ends_with(s, suffix) ==
    /\ Len(s) >= Len(suffix)
    /\ SubSeq(s, Len(s) - Len(suffix) + 1, Len(s)) = suffix

\* Option<String>
None == [some |-> FALSE, s |-> <<>>]
Some(s) == [some |-> TRUE, s |-> s]

\* Result<String>
ErrStr == [ok |-> FALSE, s |-> <<>>]
OkStr(s) == [ok |-> TRUE, s |-> s]

\* Result<Option<String>>
ErrOpt == [ok |-> FALSE, some |-> FALSE, s |-> <<>>]
OkOpt(o) == [ok |-> TRUE, some |-> o.some, s |-> o.s]

(***************************************************************************)
(* A bpf_map as libbpf presents it: the name pointer (null, valid UTF-8 or *)
(* not), bpf_map__is_internal, and bpf_map__def's map_flags.               *)
(***************************************************************************)
BPF_F_RDONLY_PROG == 128
BPF_F_MMAPABLE == 1024

Map(ptr, s, internal, flags) ==
    [ptr |-> ptr, s |-> s, internal |-> internal, map_flags |-> flags]

\* flags & bit, for a single-bit mask
BitAnd(flags, bit) == IF (flags \div bit) % 2 = 1 THEN bit ELSE 0

get_raw_map_name(m) ==
    IF m.ptr = "null" THEN ErrStr
    ELSE IF m.ptr = "invalid_utf8" THEN ErrStr
    ELSE OkStr(m.s)

\* Variant: the suffixes are matched without their leading dot.
canonicalize_without_dot(s) ==
    IF ends_with(s, <<"d", "a", "t", "a">>) THEN Some(<<"d", "a", "t", "a">>)
    ELSE IF ends_with(s, <<"b", "s", "s">>) THEN Some(<<"b", "s", "s">>)
    ELSE IF ends_with(s, <<"k", "c", "o", "n", "f", "i", "g">>)
         THEN Some(<<"k", "c", "o", "n", "f", "i", "g">>)
    ELSE None

canonicalize_internal_map_name(s) ==
    IF ends_with(s, S_data) THEN Some(<<"d", "a", "t", "a">>)
    ELSE IF ends_with(s, S_rodata) THEN Some(<<"r", "o", "d", "a", "t", "a">>)
    ELSE IF ends_with(s, S_bss) THEN Some(<<"b", "s", "s">>)
    ELSE IF ends_with(s, S_kconfig)
         THEN Some(<<"k", "c", "o", "n", "f", "i", "g">>)
    ELSE None

get_map_name(m) ==
    LET name == get_raw_map_name(m) IN
    IF ~name.ok THEN ErrOpt
    ELSE IF ~m.internal THEN OkOpt(Some(name.s))
    ELSE OkOpt(canonicalize_internal_map_name(name.s))

\* Variant: the name is not consulted.
map_is_mmapable_any_name(m) ==
    LET mmapable == BitAnd(m.map_flags, BPF_F_MMAPABLE) IN
    m.internal /\ (mmapable > 0)

map_is_mmapable(m) ==
    LET mmapable == BitAnd(m.map_flags, BPF_F_MMAPABLE)
        name == get_map_name(m)
    IN  m.internal /\ (mmapable > 0) /\ (name.ok /\ name.some)

\* The assert! of map_is_readonly panics on a map that is not mmapable.
map_is_readonly(m) ==
    IF ~map_is_mmapable(m) THEN "panic"
    ELSE IF BitAnd(m.map_flags, BPF_F_RDONLY_PROG) > 0 THEN "true"
    ELSE "false"

(***************************************************************************)
(* The compiled object: whether it can be opened, its maps and programs in *)
(* libbpf's iteration order, and what btf::Btf::new finds in its bytes.    *)
(***************************************************************************)
Prog(ptr, s) == [ptr |-> ptr, s |-> s]

get_prog_name(p) ==
    IF p.ptr = "null" THEN ErrStr
    ELSE IF p.ptr = "invalid_utf8" THEN ErrStr
    ELSE OkStr(p.s)

\* One BTF type: a Datasec with its section name, or any other kind;
\* def_ok tells whether Btf::type_definition renders it.
BtfType(kind, name, def_ok) == [kind |-> kind, name |-> name, def_ok |-> def_ok]
Btf(state, types) == [state |-> state, types |-> types]

Artifact(openable, maps, progs, btf) ==
    [openable |-> openable, maps |-> maps, progs |-> progs, btf |-> btf]

(***************************************************************************)
(* Generated source: a sequence of items.                                  *)
(*   kind  what is emitted        scope  the struct/impl/mod it is in      *)
(*   id    the map, program or section name put into the template          *)
(*   ty    the type the item names (return type, struct name)              *)
(*   idx   the index literal put into the template (-1: none)              *)
(*   flag  cfg_map: mmaped; fn_datasec: the view is `&mut`                 *)
(***************************************************************************)
Item(kind, scope, id, ty, idx, flag) ==
    [kind |-> kind, scope |-> scope, id |-> id, ty |-> ty, idx |-> idx,
     flag |-> flag]

\* Result<()> of a generator together with what it appended to `skel`
Ok(items) == [ok |-> TRUE, items |-> items]
Fail == [ok |-> FALSE, items |-> <<>>]

RECURSIVE Flatten(_)
Flatten(ss) == IF ss = <<>> THEN <<>> ELSE Head(ss) \o Flatten(Tail(ss))

\* f(..)?; g(..)?; ... : the first error is returned, else all output in order
Chain(rs) ==
    IF \A k \in 1..Len(rs) : rs[k].ok
    THEN Ok(Flatten([k \in 1..Len(rs) |-> rs[k].items]))
    ELSE Fail

\* for (k, x) in iter.enumerate() { if !visit[k] {continue}; fallible[k]?;
\*                                  if !emit[k] {continue}; write!(item[k]) }
\* over n elements; visit, ok, emit and item are given per position.
Loop(n, visit, ok, emit, item) ==
    LET at == SelectSeq([k \in 1..n |-> k], LAMBDA k : visit[k] /\ emit[k])
    IN  IF \E k \in 1..n : visit[k] /\ ~ok[k]
        THEN Fail
        ELSE Ok([j \in 1..Len(at) |-> item[at[j]]])

gen_skel_c_skel_constructor(object) ==
    Chain(<<
        Ok(<<Item("fn_build_skel_config", "mod", <<>>, "ObjectSkeletonConfig",
                  -1, FALSE)>>),
        Loop(Len(object.maps),
             [k \in 1..Len(object.maps) |-> TRUE],
             [k \in 1..Len(object.maps) |->
                get_raw_map_name(object.maps[k]).ok],
             [k \in 1..Len(object.maps) |-> TRUE],
             [k \in 1..Len(object.maps) |->
                Item("cfg_map", "build_skel_config",
                     get_raw_map_name(object.maps[k]).s, "", k - 1,
                     map_is_mmapable(object.maps[k]))]),
        Loop(Len(object.progs),
             [k \in 1..Len(object.progs) |-> TRUE],
             [k \in 1..Len(object.progs) |->
                get_prog_name(object.progs[k]).ok],
             [k \in 1..Len(object.progs) |-> TRUE],
             [k \in 1..Len(object.progs) |->
                Item("cfg_prog", "build_skel_config",
                     get_prog_name(object.progs[k]).s, "", k - 1, FALSE)])
    >>)

\* MapIter::new(object).filter(|map| !map_is_mmapable(*map)).count() == 0
NoPlainMaps(object) ==
    Len(SelectSeq(object.maps, LAMBDA m : ~map_is_mmapable(m))) = 0

\* ProgIter::new(object).next().is_none()
NoProgs(object) == Len(object.progs) = 0

MapsTy(open) == IF open THEN "OpenMaps" ELSE "Maps"
ProgsTy(open) == IF open THEN "OpenProgs" ELSE "Progs"
SkelTy(open) == IF open THEN "OpenSkel" ELSE "Skel"

gen_skel_map_defs(object, open) ==
    IF NoPlainMaps(object) THEN Ok(<<>>)
    ELSE Chain(<<
        Ok(<<Item("struct", "mod", <<>>, MapsTy(open), -1, FALSE)>>),
        Loop(Len(object.maps),
             [k \in 1..Len(object.maps) |->
                ~map_is_mmapable(object.maps[k])],
             [k \in 1..Len(object.maps) |->
                get_map_name(object.maps[k]).ok],
             [k \in 1..Len(object.maps) |->
                get_map_name(object.maps[k]).some],
             [k \in 1..Len(object.maps) |->
                Item("fn_map", MapsTy(open), get_map_name(object.maps[k]).s,
                     IF open THEN "OpenMap" ELSE "Map", -1, FALSE)])
    >>)

gen_skel_prog_defs(object, open) ==
    IF NoProgs(object) THEN Ok(<<>>)
    ELSE Chain(<<
        Ok(<<Item("struct", "mod", <<>>, ProgsTy(open), -1, FALSE)>>),
        Loop(Len(object.progs),
             [k \in 1..Len(object.progs) |-> TRUE],
             [k \in 1..Len(object.progs) |->
                get_prog_name(object.progs[k]).ok],
             [k \in 1..Len(object.progs) |-> TRUE],
             [k \in 1..Len(object.progs) |->
                Item("fn_prog", ProgsTy(open),
                     get_prog_name(object.progs[k]).s,
                     IF open THEN "OpenProgram" ELSE "Program", -1, FALSE)])
    >>)

gen_skel_datasec_defs(object) ==
    IF object.btf.state = "err" THEN Fail
    ELSE IF object.btf.state = "none" THEN Ok(<<>>)
    ELSE LET types == object.btf.types
             sec(k) == canonicalize_internal_map_name(types[k].name)
         IN  Loop(Len(types),
                  [k \in 1..Len(types) |->
                     types[k].kind = "datasec" /\ sec(k).some],
                  [k \in 1..Len(types) |->
                     types[k].def_ok],
                  [k \in 1..Len(types) |-> TRUE],
                  [k \in 1..Len(types) |->
                     Item("mod_types", "mod", sec(k).s, "", -1, FALSE)])

gen_skel_map_getter(object, open) ==
    IF NoPlainMaps(object) THEN Ok(<<>>)
    ELSE Ok(<<Item("fn_maps", SkelTy(open), <<>>, MapsTy(open), -1, FALSE)>>)

gen_skel_prog_getter(object, open) ==
    IF NoProgs(object) THEN Ok(<<>>)
    ELSE Ok(<<Item("fn_progs", SkelTy(open), <<>>, ProgsTy(open), -1, FALSE)>>)

\* Variant: the view is immutable whenever the map is read-only.
gen_skel_datasec_getters_ignoring_loaded(object, loaded) ==
    Loop(Len(object.maps),
         [k \in 1..Len(object.maps) |->
            map_is_mmapable(object.maps[k])],
         [k \in 1..Len(object.maps) |->
            get_map_name(object.maps[k]).ok],
         [k \in 1..Len(object.maps) |->
            get_map_name(object.maps[k]).some],
         [k \in 1..Len(object.maps) |->
            Item("fn_datasec", SkelTy(~loaded),
                 get_map_name(object.maps[k]).s, "types", k - 1,
                 ~(map_is_readonly(object.maps[k]) = "true"))])

\* Variant: the index counts the mappable maps only.
gen_skel_datasec_getters_index_after_filter(object, loaded) ==
    Loop(Len(object.maps),
         [k \in 1..Len(object.maps) |->
            map_is_mmapable(object.maps[k])],
         [k \in 1..Len(object.maps) |->
            get_map_name(object.maps[k]).ok],
         [k \in 1..Len(object.maps) |->
            get_map_name(object.maps[k]).some],
         [k \in 1..Len(object.maps) |->
            Item("fn_datasec", SkelTy(~loaded),
                 get_map_name(object.maps[k]).s, "types",
                 Cardinality({j \in 1..(k - 1) :
                                map_is_mmapable(object.maps[j])}),
                 ~(loaded /\ map_is_readonly(object.maps[k]) = "true"))])

\* flag: `mut` is emitted unless loaded && map_is_readonly(map)
gen_skel_datasec_getters(object, loaded) ==
    Loop(Len(object.maps),
         [k \in 1..Len(object.maps) |->
            map_is_mmapable(object.maps[k])],
         [k \in 1..Len(object.maps) |->
            get_map_name(object.maps[k]).ok],
         [k \in 1..Len(object.maps) |->
            get_map_name(object.maps[k]).some],
         [k \in 1..Len(object.maps) |->
            Item("fn_datasec", SkelTy(~loaded),
                 get_map_name(object.maps[k]).s, "types", k - 1,
                 ~(loaded /\ map_is_readonly(object.maps[k]) = "true"))])

\* Variant: the link record is emitted for an object without programs too.
gen_skel_link_defs_unconditional(object) ==
    Chain(<<
        Ok(<<Item("struct", "mod", <<>>, "Links", -1, FALSE)>>),
        Loop(Len(object.progs),
             [k \in 1..Len(object.progs) |-> TRUE],
             [k \in 1..Len(object.progs) |->
                get_prog_name(object.progs[k]).ok],
             [k \in 1..Len(object.progs) |-> TRUE],
             [k \in 1..Len(object.progs) |->
                Item("field", "Links", get_prog_name(object.progs[k]).s,
                     "Option<Link>", -1, FALSE)])
    >>)

gen_skel_link_defs(object) ==
    IF NoProgs(object) THEN Ok(<<>>)
    ELSE Chain(<<
        Ok(<<Item("struct", "mod", <<>>, "Links", -1, FALSE)>>),
        Loop(Len(object.progs),
             [k \in 1..Len(object.progs) |-> TRUE],
             [k \in 1..Len(object.progs) |->
                get_prog_name(object.progs[k]).ok],
             [k \in 1..Len(object.progs) |-> TRUE],
             [k \in 1..Len(object.progs) |->
                Item("field", "Links", get_prog_name(object.progs[k]).s,
                     "Option<Link>", -1, FALSE)])
    >>)

gen_skel_link_getter(object) ==
    IF NoProgs(object) THEN Ok(<<>>)
    ELSE Ok(<<Item("field_links", "Skel", <<>>, "Links", -1, FALSE)>>)

gen_skel_attach(object) ==
    IF NoProgs(object) THEN Ok(<<>>)
    ELSE Chain(<<
        Ok(<<Item("fn_attach", "Skel", <<>>, "Skel", -1, FALSE)>>),
        Loop(Len(object.progs),
             [k \in 1..Len(object.progs) |-> TRUE],
             [k \in 1..Len(object.progs) |->
                get_prog_name(object.progs[k]).ok],
             [k \in 1..Len(object.progs) |-> TRUE],
             [k \in 1..Len(object.progs) |->
                Item("attach_link", "fn_attach",
                     get_prog_name(object.progs[k]).s, "", k - 1, FALSE)])
    >>)

\* The `links: {}Links::default()` initializer inside load()
LoadLinksInit(object) ==
    IF ~NoProgs(object)
    THEN <<Item("links_init", "fn_load", <<>>, "Links", -1, FALSE)>>
    ELSE <<>>

(***************************************************************************)
(* gen_skel_contents: `opened` tells whether open_bpf_object returned a    *)
(* handle; `closed` whether bpf_object__close was called on it before      *)
(* returning.  The function has no call that closes the handle.            *)
(***************************************************************************)
Opened(r) ==
    [ok |-> r.ok, items |-> r.items, opened |-> TRUE, closed |-> FALSE]

gen_skel_contents(object) ==
    IF ~object.openable
    THEN [ok |-> FALSE, items |-> <<>>, opened |-> FALSE, closed |-> FALSE]
    ELSE Opened(Chain(<<
             Ok(<<Item("header", "mod", <<>>, "", -1, FALSE)>>),
             gen_skel_c_skel_constructor(object),
             Ok(<<Item("struct", "mod", <<>>, "SkelBuilder", -1, FALSE),
                  Item("fn_open", "SkelBuilder", <<>>, "OpenSkel", -1,
                       FALSE)>>),
             gen_skel_map_defs(object, TRUE),
             gen_skel_prog_defs(object, TRUE),
             gen_skel_datasec_defs(object),
             Ok(<<Item("struct", "mod", <<>>, "OpenSkel", -1, FALSE),
                  Item("fn_load", "OpenSkel", <<>>, "Skel", -1, FALSE)>>),
             Ok(LoadLinksInit(object)),
             gen_skel_prog_getter(object, TRUE),
             gen_skel_map_getter(object, TRUE),
             gen_skel_datasec_getters(object, FALSE),
             gen_skel_map_defs(object, FALSE),
             gen_skel_prog_defs(object, FALSE),
             gen_skel_link_defs(object),
             Ok(<<Item("struct", "mod", <<>>, "Skel", -1, FALSE)>>),
             gen_skel_link_getter(object),
             gen_skel_prog_getter(object, FALSE),
             gen_skel_map_getter(object, FALSE),
             gen_skel_datasec_getters(object, TRUE),
             gen_skel_attach(object),
             Ok(<<Item("const_DATA", "mod", <<>>, "", -1, FALSE)>>)
         >>))

(***************************************************************************)
(* rustfmt: the formatter changes layout only, so on success the items are *)
(* those it was given; spawning or talking to it can fail.                 *)
(***************************************************************************)
rustfmt(s, fmt_ok) == IF fmt_ok THEN Ok(s) ELSE Fail

(***************************************************************************)
(* Files.  A path is <<directory, file stem, extension>>.                  *)
(***************************************************************************)
SkelPath(dir, name) == <<dir, name, ".skel.rs">>
ModPath(dir) == <<dir, <<"m", "o", "d">>, ".rs">>

WriteFile(fs, path, content) ==
    {f \in fs : f.path # path} \cup {[path |-> path, content |-> content]}

HasFile(fs, path) == \E f \in fs : f.path = path
FileContent(fs, path) == (CHOOSE f \in fs : f.path = path).content

\* The part of gen_skel after gen_skel_contents returned `c`: rustfmt, then
\* print! or File::create and write_all.  `leak` tells whether the
\* bpf_object handle opened for `c` is still open.
Emit(c, out, path, fmt_ok, io, fs, so) ==
    IF ~c.ok \/ ~rustfmt(c.items, fmt_ok).ok
    THEN [ok |-> FALSE, files |-> fs, stdout |-> so,
          leak |-> c.opened /\ ~c.closed]
    ELSE IF out = "Stdout"
    THEN [ok |-> TRUE, files |-> fs,
          stdout |-> so \o rustfmt(c.items, fmt_ok).items,
          leak |-> c.opened /\ ~c.closed]
    ELSE IF io = "create_fails"
    THEN [ok |-> FALSE, files |-> fs, stdout |-> so,
          leak |-> c.opened /\ ~c.closed]
    ELSE IF io = "write_fails"
    THEN [ok |-> FALSE, files |-> WriteFile(fs, path, <<>>), stdout |-> so,
          leak |-> c.opened /\ ~c.closed]
    ELSE [ok |-> TRUE,
          files |-> WriteFile(fs, path, rustfmt(c.items, fmt_ok).items),
          stdout |-> so, leak |-> c.opened /\ ~c.closed]

\* Variant: the output is opened before the contents are generated, and a
\* failure leaves a placeholder behind.
gen_skel_output_first(name, object, out, dir, fmt_ok, io, fs, so) ==
    IF name = <<>>
    THEN [ok |-> FALSE, files |-> fs, stdout |-> so, leak |-> FALSE]
    ELSE Emit(gen_skel_contents(object), out, SkelPath(dir, name), fmt_ok, io,
              IF out = "Directory"
              THEN WriteFile(fs, SkelPath(dir, name), <<>>) ELSE fs,
              IF out = "Stdout"
              THEN so \o <<Item("header", "mod", <<>>, "", -1, FALSE)>>
              ELSE so)

\* gen_skel: `fs`, `so` are the files and standard output before the call;
\* `io` is what File::create / write_all do.
gen_skel(name, object, out, dir, fmt_ok, io, fs, so) ==
    IF name = <<>>
    THEN [ok |-> FALSE, files |-> fs, stdout |-> so, leak |-> FALSE]
    ELSE Emit(gen_skel_contents(object), out, SkelPath(dir, name), fmt_ok, io,
              fs, so)

(***************************************************************************)
(* UnprocessedObj: package, name, path (the source file; its parent is the *)
(* directory the skeleton and mod.rs go to) and the object compiled to     *)
(* out/<name>.bpf.o.  Packages are numbered in the order of their names,   *)
(* which is the order BTreeMap<String, _> iterates in.                     *)
(***************************************************************************)
Obj(package, name, dir, art) ==
    [package |-> package, name |-> name, path |-> <<dir, name>>, art |-> art]

\* path.pop()
Parent(path) == path[1]

ModContents(objs) ==
    <<Item("header", "mod", <<>>, "", -1, FALSE)>>
    \o [k \in 1..Len(objs) |->
          Item("mod_decl", "mod", objs[k].name, "", -1, FALSE)]
    \o [k \in 1..Len(objs) |->
          Item("pub_use", "mod", objs[k].name, "", -1, FALSE)]

\* File::create(path)?, then write_all(rustfmt(contents)?): create comes
\* first, so a formatter failure leaves the created, empty file behind.
WriteMods(path, fmt, io, fs) ==
    IF io = "create_fails" THEN [ok |-> FALSE, files |-> fs]
    ELSE IF ~fmt.ok \/ io = "write_fails"
    THEN [ok |-> FALSE, files |-> WriteFile(fs, path, <<>>)]
    ELSE [ok |-> TRUE, files |-> WriteFile(fs, path, fmt.items)]

\* Variant: no early return; an empty set writes an index module too.
gen_mods_no_early_return(objs, fmt_ok, io, fs) ==
    WriteMods(ModPath(IF objs = <<>> THEN 0 ELSE Parent(objs[1].path)),
              rustfmt(ModContents(objs), fmt_ok), io, fs)

gen_mods(objs, fmt_ok, io, fs) ==
    IF objs = <<>> THEN [ok |-> TRUE, files |-> fs]
    ELSE WriteMods(ModPath(Parent(objs[1].path)),
                   rustfmt(ModContents(objs), fmt_ok), io, fs)

(***************************************************************************)
(* gen_single                                                              *)
(***************************************************************************)
\* n.split('.').next().unwrap()
FirstSegment(n) ==
    LET dots == {k \in 1..Len(n) : n[k] = "."} IN
    IF dots = {} THEN n
    ELSE SubSeq(n, 1, (CHOOSE k \in dots : \A j \in dots : k <= j) - 1)

ObjFile(kind, s, art) == [kind |-> kind, s |-> s, art |-> art]

\* match gen_skel(..) { Ok(_) => 0, Err(e) => 1 }
ExitCode(r) ==
    [ret |-> IF r.ok THEN 0 ELSE 1, files |-> r.files, stdout |-> r.stdout,
     leak |-> r.leak]

\* Returns the exit status with the files, output and leak of gen_skel.
gen_single(of, fmt_ok, fs, so) ==
    IF of.kind = "no_file_name" \/ of.kind = "non_unicode"
       \/ ~ends_with(of.s, <<".", "o">>)
    THEN [ret |-> 1, files |-> fs, stdout |-> so, leak |-> FALSE]
    ELSE ExitCode(gen_skel(FirstSegment(of.s), of.art, "Stdout", 0, fmt_ok,
                           "ok", fs, so))

(***************************************************************************)
(* Bounds and inputs                                                       *)
(***************************************************************************)
MaxMaps == 2        \* maps per object
MaxProgs == 2       \* programs per object
MaxObjs == 2        \* objects metadata::get returns
NumPackages == 2    \* packages of the workspace

\* Sequences without repetition of at most n elements of S
InjSeqs(S, n) ==
    {s \in UNION {[1..k -> S] : k \in 0..n} :
        \A a, b \in 1..Len(s) : a # b => s[a] # s[b]}

MapNames ==
    { <<"m">>, <<>>, S_data, S_rodata, S_bss, S_kconfig, S_foo,
      <<"a">> \o S_data, <<"a">> \o S_rodata, <<"a", "_", "b">> \o S_bss,
      <<"a">> \o S_kconfig, SubSeq(S_data, 2, 5), SubSeq(S_rodata, 2, 7),
      S_data \o <<"x">>, S_rodata \o S_data, S_data \o S_rodata,
      S_bss \o S_foo, <<"k", "c", "o", "n", "f", "i", "g">> }

MapFlags == {0, 1, BPF_F_RDONLY_PROG, BPF_F_MMAPABLE, BPF_F_MMAPABLE + 1,
             BPF_F_MMAPABLE + BPF_F_RDONLY_PROG}

MapInputs ==
    { Map("valid", s, n, f) : s \in MapNames, n \in BOOLEAN, f \in MapFlags }
    \cup { Map(p, <<>>, n, f) :
             p \in {"null", "invalid_utf8"}, n \in BOOLEAN, f \in MapFlags }

\* Maps of the objects generated from: user maps, data sections with and
\* without the mmapable and read-only bits, an unrecognized internal map,
\* and maps without a name.
M_user == Map("valid", <<"m">>, FALSE, 0)
M_user_flagged ==
    Map("valid", <<"n">>, FALSE, BPF_F_MMAPABLE + BPF_F_RDONLY_PROG)
M_data == Map("valid", <<"a">> \o S_data, TRUE, BPF_F_MMAPABLE)
M_rodata ==
    Map("valid", <<"a">> \o S_rodata, TRUE, BPF_F_MMAPABLE + BPF_F_RDONLY_PROG)
M_bss_plain == Map("valid", <<"a">> \o S_bss, TRUE, 0)
M_foo == Map("valid", <<"a">> \o S_foo, TRUE, BPF_F_MMAPABLE)
M_null == Map("null", <<>>, FALSE, 0)
M_null_internal == Map("invalid_utf8", <<>>, TRUE, BPF_F_MMAPABLE)

GenMaps == {M_user, M_user_flagged, M_data, M_rodata, M_bss_plain, M_foo,
            M_null, M_null_internal}

P_p == Prog("valid", <<"p">>)
P_q == Prog("valid", <<"q">>)
GenProgs == {P_p, P_q, Prog("null", <<>>)}

BtfInputs ==
    { Btf("err", <<>>), Btf("none", <<>>),
      Btf("some", <<BtfType("datasec", S_data, TRUE),
                    BtfType("other", <<"t">>, TRUE),
                    BtfType("datasec", S_rodata, TRUE)>>),
      Btf("some", <<BtfType("datasec", S_bss, TRUE),
                    BtfType("datasec", S_foo, TRUE)>>),
      Btf("some", <<BtfType("datasec", S_data, FALSE)>>) }

Unopenable == Artifact(FALSE, <<>>, <<>>, Btf("none", <<>>))

GenArts ==
    {Unopenable} \cup
    { Artifact(TRUE, ms, ps, b) :
        ms \in InjSeqs(GenMaps, MaxMaps), ps \in InjSeqs(GenProgs, MaxProgs),
        b \in BtfInputs }

FullBtf ==
    Btf("some", <<BtfType("datasec", S_data, TRUE),
                  BtfType("datasec", S_rodata, TRUE),
                  BtfType("datasec", S_bss, TRUE)>>)

ArtCounter == Artifact(TRUE, <<M_user, M_data>>, <<P_p>>, FullBtf)
ArtNullMap == Artifact(TRUE, <<M_data, M_null>>, <<P_p>>, FullBtf)
ArtNoProgs == Artifact(TRUE, <<M_rodata>>, <<>>, FullBtf)

\* gen_single's --object paths: a few file names with one object, and one
\* well-formed file name with every object
ObjFiles ==
    { ObjFile(k, s, ArtCounter) :
        k \in {"no_file_name", "non_unicode"}, s \in {<<>>} }
    \cup { ObjFile("valid", s, ArtCounter) :
             s \in { <<"a">>, <<".", "o">>, <<"a", ".", "o", ".", "c">>,
                     <<"a", ".", "b", "p", "f", ".", "o">> } }
    \cup { ObjFile("valid", <<"a", ".", "o">>, a) : a \in GenArts }

\* The objects metadata::get finds: each package's sources are the files
\* of its own src/bpf directory, so no two share package and name.
ProjObjs ==
    { Obj(p, n, p, a) :
        p \in 1..NumPackages, n \in {<<"a">>, <<"b">>},
        a \in {ArtCounter, ArtNullMap, ArtNoProgs} }

ToGenInputs ==
    {s \in UNION {[1..k -> ProjObjs] : k \in 0..MaxObjs} :
        \A a, b \in 1..Len(s) : a # b => s[a].path # s[b].path}

\* Arguments of a direct gen_mods call: objects of one package
ModsInputs ==
    {s \in ToGenInputs : \A a, b \in 1..Len(s) : s[a].package = s[b].package}

IoOutcomes == {"ok", "create_fails", "write_fails"}

NoMap == Map("null", <<>>, FALSE, 0)
NoCls == [name |-> ErrOpt, mmapable |-> FALSE, readonly |-> "panic"]
NoObjFile == ObjFile("no_file_name", <<>>, Unopenable)
NoCall == [op |-> "none", ret |-> 0, slots |-> <<>>]

Init ==
    /\ pc = "idle"
    /\ map = NoMap
    /\ cls = NoCls
    /\ obj_file = NoObjFile
    /\ to_gen = <<>>
    /\ debug = FALSE
    /\ i = 0
    /\ package_objs = <<>>
    /\ files = {}
    /\ stdout = <<>>
    /\ handles = 0
    /\ status = -1
    /\ mods_arg = <<>>
    /\ skel = <<>>
    /\ lstate = "None"
    /\ links = <<>>
    /\ attached = <<>>
    /\ call = NoCall

(***************************************************************************)
(* The map helpers applied to one map.                                     *)
(***************************************************************************)
Classify ==
    /\ pc = "idle"
    /\ \E m \in MapInputs :
         /\ map' = m
         /\ cls' = [name |-> get_map_name(m),
                    mmapable |-> map_is_mmapable(m),
                    readonly |-> map_is_readonly(m)]
    /\ pc' = "classified"
    /\ UNCHANGED <<obj_file, to_gen, debug, i, package_objs, files, stdout,
                   handles, status, mods_arg, skel, lstate, links, attached,
                   call>>

NextMap == Classify
SpecMap == Init /\ [][NextMap]_vars

(***************************************************************************)
(* gen: --object runs gen_single, otherwise gen_project.                   *)
(***************************************************************************)
Leak(r) == IF r.leak THEN 1 ELSE 0

\* gen with --manifest-path and --object both given
GenConflict ==
    /\ pc = "idle"
    /\ \E d \in BOOLEAN : debug' = d
    /\ status' = 1
    /\ call' = [op |-> "gen", ret |-> 1, slots |-> <<>>]
    /\ pc' = "done"
    /\ UNCHANGED <<map, cls, obj_file, to_gen, i, package_objs, files, stdout,
                   handles, mods_arg, skel, lstate, links, attached>>

GenSingle ==
    /\ pc = "idle"
    /\ \E of \in ObjFiles, fmt_ok \in BOOLEAN :
         \E r \in {gen_single(of, fmt_ok, files, stdout)} :
         /\ obj_file' = of
         /\ files' = r.files
         /\ stdout' = r.stdout
         /\ handles' = handles + Leak(r)
         /\ status' = r.ret
         /\ call' = [op |-> "gen_single", ret |-> r.ret, slots |-> <<>>]
    /\ pc' = "done"
    /\ UNCHANGED <<map, cls, to_gen, debug, i, package_objs, mods_arg, skel,
                   lstate, links, attached>>

\* gen_project up to its loop: metadata::get and the empty check
GenProjectBegin ==
    /\ pc = "idle"
    /\ \E md_ok \in BOOLEAN, objs \in ToGenInputs, d \in BOOLEAN :
         /\ debug' = d
         /\ call' = [op |-> "gen_project", ret |-> IF md_ok THEN 0 ELSE 1,
                     slots |-> <<>>]
         /\ to_gen' = IF md_ok THEN objs ELSE <<>>
         /\ stdout' = IF md_ok /\ d /\ objs # <<>>
                      THEN [k \in 1..Len(objs) |->
                              Item("debug_obj", "stdout", objs[k].name, "",
                                   -1, FALSE)]
                      ELSE stdout
         /\ IF ~md_ok \/ objs = <<>>
            THEN /\ status' = 1
                 /\ pc' = "done"
                 /\ i' = i
            ELSE /\ status' = status
                 /\ pc' = "skel"
                 /\ i' = 1
    /\ UNCHANGED <<map, cls, obj_file, package_objs, files, handles, mods_arg,
                   skel, lstate, links, attached>>

\* package_objs.get_mut(&obj.package): push, or insert a new vector
Group(po, obj) ==
    [p \in DOMAIN po \cup {obj.package} |->
        IF p \in DOMAIN po
        THEN IF p = obj.package THEN Append(po[p], obj) ELSE po[p]
        ELSE <<obj>>]

\* Variant: every object is filed under the first package seen.
GroupStep_first_package(po, obj) ==
    IF DOMAIN po = {} THEN Group(po, obj)
    ELSE LET p0 == CHOOSE p \in DOMAIN po : \A q \in DOMAIN po : p <= q
         IN  [po EXCEPT ![p0] = Append(po[p0], obj)]

GroupStep(po, obj) == Group(po, obj)

\* Variant: a failed skeleton is skipped and the loop goes on.
GenProjectSkel_continue_on_error ==
    /\ pc = "skel"
    /\ \E fmt_ok \in BOOLEAN, io \in IoOutcomes :
         \E obj \in {to_gen[i]} :
         \E r \in {gen_skel(obj.name, obj.art, "Directory", Parent(obj.path),
                            fmt_ok, io, files, stdout)} :
             /\ files' = r.files
             /\ stdout' = r.stdout
             /\ handles' = handles + Leak(r)
             /\ package_objs' = GroupStep(package_objs, obj)
             /\ status' = status
             /\ IF i = Len(to_gen)
                THEN pc' = "mods" /\ i' = 1
                ELSE pc' = pc /\ i' = i + 1
    /\ UNCHANGED <<map, cls, obj_file, to_gen, debug, mods_arg, skel, lstate,
                   links, attached, call>>

\* one iteration of `for obj in to_gen`
GenProjectSkel ==
    /\ pc = "skel"
    /\ \E fmt_ok \in BOOLEAN, io \in IoOutcomes :
         \E obj \in {to_gen[i]} :
         \E r \in {gen_skel(obj.name, obj.art, "Directory", Parent(obj.path),
                            fmt_ok, io, files, stdout)} :
             /\ files' = r.files
             /\ stdout' = r.stdout
             /\ handles' = handles + Leak(r)
             /\ IF ~r.ok
                THEN /\ status' = 1
                     /\ pc' = "done"
                     /\ UNCHANGED <<i, package_objs>>
                ELSE /\ package_objs' = GroupStep(package_objs, obj)
                     /\ status' = status
                     /\ IF i = Len(to_gen)
                        THEN pc' = "mods" /\ i' = 1
                        ELSE pc' = pc /\ i' = i + 1
    /\ UNCHANGED <<map, cls, obj_file, to_gen, debug, mods_arg, skel, lstate,
                   links, attached, call>>

\* BTreeMap iteration: the k-th key in ascending order
KthKey(po, k) ==
    CHOOSE p \in DOMAIN po : Cardinality({q \in DOMAIN po : q < p}) = k - 1

\* one iteration of `for (package, objs) in package_objs`
GenProjectMods ==
    /\ pc = "mods"
    /\ \E fmt_ok \in BOOLEAN, io \in IoOutcomes :
         \E r \in {gen_mods(package_objs[KthKey(package_objs, i)], fmt_ok,
                            io, files)} :
             /\ files' = r.files
             /\ IF ~r.ok
                THEN status' = 1 /\ pc' = "done" /\ i' = i
                ELSE IF i = Cardinality(DOMAIN package_objs)
                THEN status' = 0 /\ pc' = "done" /\ i' = i
                ELSE status' = status /\ pc' = pc /\ i' = i + 1
    /\ UNCHANGED <<map, cls, obj_file, to_gen, debug, package_objs, stdout,
                   handles, mods_arg, skel, lstate, links, attached, call>>

\* the public gen_mods called on its own
GenModsCall ==
    /\ pc = "idle"
    /\ \E objs \in ModsInputs, fmt_ok \in BOOLEAN, io \in IoOutcomes :
         \E r \in {gen_mods(objs, fmt_ok, io, files)} :
         /\ mods_arg' = objs
         /\ files' = r.files
         /\ status' = IF r.ok THEN 0 ELSE 1
         /\ call' = [op |-> "gen_mods", ret |-> IF r.ok THEN 0 ELSE 1,
                     slots |-> <<>>]
    /\ pc' = "done"
    /\ UNCHANGED <<map, cls, obj_file, to_gen, debug, i, package_objs, stdout,
                   handles, skel, lstate, links, attached>>

NextGen ==
    \/ GenConflict
    \/ GenSingle
    \/ GenProjectBegin
    \/ GenProjectSkel
    \/ GenProjectMods
    \/ GenModsCall

SpecGen == Init /\ [][NextGen]_vars

(***************************************************************************)
(* The generated types at run time.  The caller owns one value at a time:  *)
(* `open(mut self)` and `load(mut self)` consume it, `attach(&mut self)`   *)
(* and the accessors borrow it.  Which methods exist on which type is read *)
(* off the generated module `skel`.                                        *)
(***************************************************************************)
ItemsOf(s) == {s[k] : k \in 1..Len(s)}

\* the programs registered by build_skel_config, in order
Registered(s) == SelectSeq(s, LAMBDA it : it.kind = "cfg_prog")

\* {}Links::default()
DefaultLinks(s) ==
    [n \in {it.id : it \in {x \in ItemsOf(s) : x.kind = "field" /\ x.scope = "Links"}}
       |-> 0]

\* ObjectSkeletonConfig::prog_link_ptr(index): the link pointer libbpf
\* stored for the index-th registered program
prog_link_ptr(slots, index) ==
    IF index >= 0 /\ index < Len(slots)
    THEN [ok |-> TRUE, ptr |-> slots[index + 1]]
    ELSE [ok |-> FALSE, ptr |-> 0]

\* Objects whose generation succeeds, for running the generated code
LifeArts ==
    { Artifact(TRUE, ms, ps, FullBtf) :
        ms \in InjSeqs({M_user, M_data, M_rodata}, MaxMaps),
        ps \in InjSeqs({P_p, P_q}, MaxProgs) }

Rets == {0, -1, -22}
LinkPtrs == {0, 1, 2}

\* the generated module is compiled and a {name}SkelBuilder::default() made
Instantiate ==
    /\ pc = "idle"
    /\ \E art \in LifeArts :
         \E c \in {gen_skel_contents(art)} :
           /\ c.ok
           /\ skel' = c.items
    /\ lstate' = "SkelBuilder"
    /\ pc' = "running"
    /\ UNCHANGED <<map, cls, obj_file, to_gen, debug, i, package_objs, files,
                   stdout, handles, status, mods_arg, links, attached, call>>

\* Variant: a failed call hands the value back to the caller.
Consumed_kept_on_error(method, state, ret) ==
    IF ret # 0 THEN state ELSE method.ty

\* `fn m(mut self) -> Result<T>`: self is moved in; Ok carries a T
Consumed(method, state, ret) ==
    IF ret # 0 THEN "Dropped" ELSE method.ty

Open ==
    /\ pc = "running"
    /\ \E m \in ItemsOf(skel), ret \in Rets :
         /\ m.kind = "fn_open"
         /\ m.scope = lstate
         /\ lstate' = Consumed(m, lstate, ret)
         /\ call' = [op |-> "open", ret |-> ret, slots |-> <<>>]
    /\ UNCHANGED <<pc, map, cls, obj_file, to_gen, debug, i, package_objs,
                   files, stdout, handles, status, mods_arg, skel, links,
                   attached>>

Load ==
    /\ pc = "running"
    /\ \E m \in ItemsOf(skel), ret \in Rets :
         /\ m.kind = "fn_load"
         /\ m.scope = lstate
         /\ lstate' = Consumed(m, lstate, ret)
         /\ links' = IF ret = 0 /\ \E x \in ItemsOf(skel) : x.kind = "links_init"
                     THEN DefaultLinks(skel)
                     ELSE links
         /\ call' = [op |-> "load", ret |-> ret, slots |-> <<>>]
    /\ UNCHANGED <<pc, map, cls, obj_file, to_gen, debug, i, package_objs,
                   files, stdout, handles, status, mods_arg, skel, attached>>

AttachFields(s) == {x \in ItemsOf(s) : x.kind = "attach_link"}

\* Variant: a link already present is kept.
attach_keeping_present(s, old, ret, slots) ==
    IF ret # 0 THEN [ok |-> FALSE, links |-> old]
    ELSE IF \E x \in AttachFields(s) : ~prog_link_ptr(slots, x.idx).ok
    THEN [ok |-> FALSE, links |-> old]
    ELSE [ok |-> TRUE,
          links |-> [n \in {x.id : x \in AttachFields(s)} |->
                       IF n \in DOMAIN old /\ old[n] # 0 THEN old[n]
                       ELSE prog_link_ptr(slots,
                              (CHOOSE x \in AttachFields(s) : x.id = n).idx).ptr]]

\* The generated attach(): `ret` is what bpf_object__attach_skeleton
\* returned, `slots` the link pointers it left in the skeleton.
attach(s, old, ret, slots) ==
    IF ret # 0 THEN [ok |-> FALSE, links |-> old]
    ELSE IF \E x \in AttachFields(s) : ~prog_link_ptr(slots, x.idx).ok
    THEN [ok |-> FALSE, links |-> old]
    ELSE [ok |-> TRUE,
          links |-> [n \in {x.id : x \in AttachFields(s)} |->
                       prog_link_ptr(slots,
                         (CHOOSE x \in AttachFields(s) : x.id = n).idx).ptr]]

Attach ==
    /\ pc = "running"
    /\ \E m \in ItemsOf(skel), ret \in Rets,
          slots \in [1..Len(Registered(skel)) -> LinkPtrs] :
         /\ m.kind = "fn_attach"
         /\ m.scope = lstate
         /\ \E r \in {attach(skel, links, ret, slots)} :
              /\ links' = r.links
              /\ attached' = IF r.ok THEN slots ELSE attached
         /\ call' = [op |-> "attach", ret |-> ret, slots |-> slots]
    /\ UNCHANGED <<pc, map, cls, obj_file, to_gen, debug, i, package_objs,
                   files, stdout, handles, status, mods_arg, skel, lstate>>

\* progs(), maps() and the data-section accessors borrow self
Access ==
    /\ pc = "running"
    /\ \E m \in ItemsOf(skel) :
         /\ m.kind \in {"fn_progs", "fn_maps", "fn_datasec"}
         /\ m.scope = lstate
         /\ call' = [op |-> m.kind, ret |-> 0, slots |-> <<>>]
    /\ UNCHANGED <<pc, map, cls, obj_file, to_gen, debug, i, package_objs,
                   files, stdout, handles, status, mods_arg, skel, lstate,
                   links, attached>>

\* the value the caller owns goes out of scope
Drop ==
    /\ pc = "running"
    /\ lstate # "Dropped"
    /\ lstate' = "Dropped"
    /\ UNCHANGED <<pc, map, cls, obj_file, to_gen, debug, i, package_objs,
                   files, stdout, handles, status, mods_arg, skel, links,
                   attached, call>>

NextLife ==
    \/ Instantiate
    \/ Open
    \/ Load
    \/ Attach
    \/ Access
    \/ Drop

SpecLife == Init /\ [][NextLife]_vars

(***************************************************************************)
(* Properties                                                              *)
(***************************************************************************)
\* s = prefix \o x for some prefix
HasSuffix(s, x) == \E k \in 0..Len(s) : SubSeq(s, 1, k) \o x = s
HasBit(f, b) == f % (2 * b) >= b
Recognized(s) ==
    \/ HasSuffix(s, S_data)
    \/ HasSuffix(s, S_rodata)
    \/ HasSuffix(s, S_bss)
    \/ HasSuffix(s, S_kconfig)

\* C1: a map that is not internal keeps its raw name; an internal map named
\* ...".data", ".rodata", ".bss", ".kconfig" is called data, rodata, bss,
\* kconfig; any other internal map has no canonical name, which is not an
\* error.
C1_CanonicalName ==
    (pc = "classified" /\ map.ptr = "valid") =>
        /\ cls.name.ok
        /\ ~map.internal => (cls.name.some /\ cls.name.s = map.s)
        /\ map.internal =>
             /\ HasSuffix(map.s, S_data) =>
                  (cls.name.some /\ cls.name.s = <<"d", "a", "t", "a">>)
             /\ HasSuffix(map.s, S_rodata) =>
                  (cls.name.some /\ cls.name.s = <<"r", "o", "d", "a", "t", "a">>)
             /\ HasSuffix(map.s, S_bss) =>
                  (cls.name.some /\ cls.name.s = <<"b", "s", "s">>)
             /\ HasSuffix(map.s, S_kconfig) =>
                  (cls.name.some
                   /\ cls.name.s = <<"k", "c", "o", "n", "f", "i", "g">>)
             /\ ~Recognized(map.s) => ~cls.name.some

C1_Witness ==
    /\ pc = "classified"
    /\ map.internal
    /\ map.s = <<"a">> \o S_rodata
    /\ cls.name = OkOpt(Some(<<"r", "o", "d", "a", "t", "a">>))

\* C7: a map is mappable exactly when it is internal, has the mappable bit
\* and has a retrievable, recognized name; a mappable map is read-only
\* exactly when it also has the read-only-from-program bit.
C7_Mappable ==
    pc = "classified" =>
        /\ cls.mmapable <=>
             (/\ map.internal
              /\ HasBit(map.map_flags, 1024)
              /\ map.ptr = "valid"
              /\ Recognized(map.s))
        /\ cls.mmapable =>
             ((cls.readonly = "true") <=> HasBit(map.map_flags, 128))
        /\ cls.mmapable => cls.readonly \in {"true", "false"}

C7_Witness ==
    /\ pc = "classified"
    /\ cls.mmapable
    /\ cls.readonly = "true"
    /\ map.map_flags = 1152

\* The modules generated so far, each with the object it was generated
\* from: the text gen_single printed, and every skeleton file written.
Generated ==
    (IF call.op = "gen_single" /\ status = 0
     THEN {[art |-> obj_file.art, items |-> stdout]} ELSE {})
    \cup
    {[art |-> to_gen[k].art,
      items |-> FileContent(files, SkelPath(Parent(to_gen[k].path),
                                            to_gen[k].name))] :
       k \in {j \in 1..Len(to_gen) :
                HasFile(files, SkelPath(Parent(to_gen[j].path), to_gen[j].name))}}

Datasecs(g) == {x \in ItemsOf(g.items) : x.kind = "fn_datasec"}
ReadOnlyMap(m) == HasBit(m.map_flags, 128)

\* C2 as stated: in the opened and in the loaded skeleton alike, a
\* data-section accessor is immutable exactly when its map is read-only.
C2_AsStated ==
    \A g \in Generated : \A x \in Datasecs(g) :
        x.flag <=> ~ReadOnlyMap(g.art.maps[x.idx + 1])

\* C2 amended: in the loaded skeleton a data-section accessor is immutable
\* exactly when its map is read-only; in the opened skeleton every
\* data-section accessor is mutable.
C2_LoadedOnly ==
    \A g \in Generated : \A x \in Datasecs(g) :
        /\ x.scope \in {"OpenSkel", "Skel"}
        /\ x.scope = "Skel" => (x.flag <=> ~ReadOnlyMap(g.art.maps[x.idx + 1]))
        /\ x.scope = "OpenSkel" => x.flag

C2_Witness ==
    \E g \in Generated : \E x, y \in Datasecs(g) :
        /\ x.scope = "Skel" /\ ~x.flag
        /\ y.scope = "OpenSkel" /\ y.flag /\ y.idx = x.idx
        /\ ReadOnlyMap(g.art.maps[x.idx + 1])

\* C4: when generation for an object has completed, no bpf_object handle
\* opened for it is still open.
C4_HandlesReleased == pc = "done" => handles = 0

BadName(art) ==
    \/ \E k \in 1..Len(art.maps) : art.maps[k].ptr # "valid"
    \/ \E k \in 1..Len(art.progs) : art.progs[k].ptr # "valid"

\* C5: an object with a map or program whose name is absent or not valid
\* text makes generation fail and nothing is emitted for it: gen_single
\* prints nothing and returns non-zero; gen_project never writes its
\* skeleton file, never gets past it and never returns zero.
C5_NoOutputOnBadName ==
    /\ (call.op = "gen_single" /\ obj_file.kind = "valid"
        /\ BadName(obj_file.art)) =>
           (status = 1 /\ stdout = <<>> /\ files = {})
    /\ \A k \in 1..Len(to_gen) :
         BadName(to_gen[k].art) =>
           /\ ~HasFile(files, SkelPath(Parent(to_gen[k].path), to_gen[k].name))
           /\ pc = "skel" => i <= k
           /\ pc # "mods"
           /\ status # 0

C5_Witness ==
    /\ call.op = "gen_single"
    /\ ends_with(obj_file.s, <<".", "o">>)
    /\ obj_file.art.openable
    /\ \E k \in 1..Len(obj_file.art.maps) : obj_file.art.maps[k].ptr = "null"
    /\ status = 1
    /\ stdout = <<>>

Has(g, kind, scope, ty) ==
    \E x \in ItemsOf(g.items) : x.kind = kind /\ x.scope = scope /\ x.ty = ty

PlainMap(m) ==
    ~(m.internal /\ HasBit(m.map_flags, 1024) /\ m.ptr = "valid"
      /\ Recognized(m.s))

\* C6: the link record, the `links` field, the `links` initializer of
\* load() and attach() are generated exactly when the object has a
\* program; the map-accessor group and maps(), in the opened and in the
\* loaded form, exactly when it has a map that is not mappable.
C6_ConditionalEmission ==
    \A g \in {h \in Generated : h.items # <<>>} :
        LET progs == g.art.progs # <<>>
            plain == \E k \in 1..Len(g.art.maps) : PlainMap(g.art.maps[k])
        IN  /\ Has(g, "struct", "mod", "Links") <=> progs
            /\ Has(g, "field_links", "Skel", "Links") <=> progs
            /\ Has(g, "links_init", "fn_load", "Links") <=> progs
            /\ Has(g, "fn_attach", "Skel", "Skel") <=> progs
            /\ Has(g, "struct", "mod", "OpenMaps") <=> plain
            /\ Has(g, "struct", "mod", "Maps") <=> plain
            /\ Has(g, "fn_maps", "OpenSkel", "OpenMaps") <=> plain
            /\ Has(g, "fn_maps", "Skel", "Maps") <=> plain

C6_Witness ==
    \E g \in Generated :
        /\ g.art.progs = <<>>
        /\ g.art.maps # <<>>
        /\ \A k \in 1..Len(g.art.maps) : ~PlainMap(g.art.maps[k])
        /\ g.items # <<>>
        /\ ~Has(g, "struct", "mod", "Links")
        /\ ~Has(g, "struct", "mod", "Maps")

Earlier(a, b) ==
    \/ a = "SkelBuilder" /\ b \in {"OpenSkel", "Skel"}
    \/ a = "OpenSkel" /\ b = "Skel"

\* C3: builder -> opened -> loaded is linear.  open() exists on the builder
\* only, consumes it and yields the opened skeleton or, failing, nothing;
\* load() likewise from opened to loaded; attach() exists on the loaded
\* skeleton only and leaves it loaded; no step leads to an earlier state.
C3_LinearLifecycle ==
    [][/\ ~Earlier(lstate', lstate)
       /\ lstate = "Dropped" => lstate' = "Dropped"
       /\ (call' # call /\ call'.op = "open") =>
            /\ lstate = "SkelBuilder"
            /\ lstate' = IF call'.ret = 0 THEN "OpenSkel" ELSE "Dropped"
       /\ (call' # call /\ call'.op = "load") =>
            /\ lstate = "OpenSkel"
            /\ lstate' = IF call'.ret = 0 THEN "Skel" ELSE "Dropped"
       /\ (call' # call /\ call'.op = "attach") =>
            (lstate = "Skel" /\ lstate' = "Skel")
       /\ (lstate' # lstate /\ lstate' \in {"OpenSkel", "Skel"}) =>
            (call' # call /\ call'.ret = 0
             /\ call'.op = IF lstate' = "Skel" THEN "load" ELSE "open")
      ]_vars

C3_Witness ==
    /\ lstate = "Skel"
    /\ call.op = "attach"
    /\ call.ret = 0

\* the position (from 1) at which program n was registered
RegisteredAt(s, n) ==
    CHOOSE k \in 1..Len(Registered(s)) : Registered(s)[k].id = n

\* C8: on a loaded skeleton the links record is what the most recent
\* successful attach() made it: one field per program, present exactly when
\* the skeleton's link pointer for that program is non-null; it is the
\* all-absent default while no attach() has succeeded, and a failed
\* attach() leaves it as it was.
C8_LinksOverwritten ==
    (lstate = "Skel" /\ Registered(skel) # <<>>) =>
        /\ DOMAIN links = {Registered(skel)[k].id : k \in 1..Len(Registered(skel))}
        /\ \A n \in DOMAIN links :
             links[n] = IF attached = <<>> THEN 0
                        ELSE attached[RegisteredAt(skel, n)]

C8_Witness ==
    /\ lstate = "Skel"
    /\ Len(Registered(skel)) = 2
    /\ call.op = "attach"
    /\ call.ret # 0
    /\ attached = <<0, 2>>
    /\ call.slots = <<1, 1>>
    /\ links[Registered(skel)[1].id] = 0
    /\ links[Registered(skel)[2].id] = 2

Names(objs) == [k \in 1..Len(objs) |-> objs[k].name]
Kind(items, kind) == SelectSeq(items, LAMBDA x : x.kind = kind)
IdsOf(items) == [k \in 1..Len(items) |-> items[k].id]
IndexFiles == {f \in files : f.path[3] = ".rs"}
OwnedBy(p) == SelectSeq(to_gen, LAMBDA o : o.package = p)
Owners == {to_gen[k].package : k \in 1..Len(to_gen)}
\* mod.rs next to the sources of package p
IndexOf(p) == ModPath(Parent(OwnedBy(p)[1].path))

\* C9: after a successful gen_project, one index module has been written
\* per package that owns an object, and it declares and re-exports, once
\* each and in discovery order, exactly the objects of that package.
C9_IndexPerPackage ==
    (call.op = "gen_project" /\ pc = "done" /\ status = 0) =>
        /\ Cardinality(IndexFiles) = Cardinality(Owners)
        /\ \A p \in Owners :
             /\ HasFile(files, IndexOf(p))
             /\ IdsOf(Kind(FileContent(files, IndexOf(p)), "mod_decl"))
                  = Names(OwnedBy(p))
             /\ IdsOf(Kind(FileContent(files, IndexOf(p)), "pub_use"))
                  = Names(OwnedBy(p))

C9_Witness ==
    /\ call.op = "gen_project"
    /\ pc = "done"
    /\ status = 0
    /\ Len(to_gen) = 2
    /\ to_gen[1].package = to_gen[2].package
    /\ IdsOf(Kind(FileContent(files, IndexOf(to_gen[1].package)), "pub_use"))
         = <<to_gen[1].name, to_gen[2].name>>

\* C10: gen_project, when discovery succeeds with no object, returns
\* non-zero and writes no file; gen_mods given no object succeeds and
\* writes no file.
C10_EmptyInputs ==
    /\ (call.op = "gen_project" /\ call.ret = 0 /\ to_gen = <<>>) =>
         (pc = "done" /\ status = 1 /\ files = {})
    /\ (call.op = "gen_mods" /\ mods_arg = <<>>) =>
         (call.ret = 0 /\ status = 0 /\ files = {})

C10_Witness ==
    /\ call.op = "gen_project"
    /\ call.ret = 0
    /\ to_gen = <<>>
    /\ status = 1
    /\ files = {}

\* gen_skel has succeeded for object o: its skeleton file holds the whole
\* generated module
SkelDone(o) ==
    /\ HasFile(files, SkelPath(Parent(o.path), o.name))
    /\ \E c \in {gen_skel_contents(o.art)} :
         c.ok /\ FileContent(files, SkelPath(Parent(o.path), o.name)) = c.items

\* the first object in discovery order whose generation has not succeeded
FirstNotDone ==
    CHOOSE k \in 1..Len(to_gen) :
        ~SkelDone(to_gen[k]) /\ \A j \in 1..(k - 1) : SkelDone(to_gen[j])

\* C11: in gen_project an index module is written only once the skeleton
\* of every object of its package has been generated; when generation fails
\* for an object, the run ends with a non-zero status, no index module is
\* written for any package, and no object after it in discovery order is
\* generated.
C11_IndexAfterAllSkeletons ==
    call.op = "gen_project" =>
        /\ \A p \in Owners :
             HasFile(files, IndexOf(p)) =>
                 \A k \in 1..Len(to_gen) :
                     to_gen[k].package = p => SkelDone(to_gen[k])
        /\ IndexFiles # {} => pc \in {"mods", "done"}
        /\ (pc = "done" /\ \E k \in 1..Len(to_gen) : ~SkelDone(to_gen[k])) =>
             /\ status # 0
             /\ IndexFiles = {}
             /\ \A j \in (FirstNotDone + 1)..Len(to_gen) :
                  ~HasFile(files, SkelPath(Parent(to_gen[j].path),
                                           to_gen[j].name))

C11_Witness ==
    /\ call.op = "gen_project"
    /\ pc = "done"
    /\ status = 1
    /\ Len(to_gen) = 2
    /\ to_gen[1].package = to_gen[2].package
    /\ ~SkelDone(to_gen[1])
    /\ ~BadName(to_gen[2].art)
    /\ ~HasFile(files, SkelPath(Parent(to_gen[2].path), to_gen[2].name))
    /\ IndexFiles = {}

\* the type sub-modules {obj}_{n}_types of a generated module, in order
TypeModules(g, n) ==
    SelectSeq(g.items, LAMBDA x : x.kind = "mod_types" /\ x.id = n)

\* C12: a generated module that has a data-section accessor for section n
\* (in the opened or in the loaded skeleton) has exactly one type
\* sub-module for n, whatever type metadata the object carries.
C12_AccessorTypeDefined ==
    \A g \in Generated : \A x \in Datasecs(g) :
        Len(TypeModules(g, x.id)) = 1

AttachLinks(g) == {x \in ItemsOf(g.items) : x.kind = "attach_link"}

\* C13: build_skel_config registers every map (by raw name) and every
\* program of the object, in the object's order; the index a data-section
\* accessor passes to map_mmap_ptr is the zero-based position at which its
\* own map was registered, with the mmaped flag true; the index attach()
\* passes to prog_link_ptr for a program is the zero-based position at which
\* that program was registered.
C13_IndexConsistency ==
    \A g \in {h \in Generated : h.items # <<>>} :
        LET regm == Kind(g.items, "cfg_map")
            regp == Kind(g.items, "cfg_prog")
        IN  /\ IdsOf(regm) = [k \in 1..Len(g.art.maps) |-> g.art.maps[k].s]
            /\ IdsOf(regp) = [k \in 1..Len(g.art.progs) |-> g.art.progs[k].s]
            /\ \A k \in 1..Len(regm) : regm[k].flag <=> ~PlainMap(g.art.maps[k])
            /\ \A x \in Datasecs(g) :
                 /\ x.idx + 1 \in 1..Len(regm)
                 /\ regm[x.idx + 1].flag
                 /\ HasSuffix(regm[x.idx + 1].id, <<".">> \o x.id)
            /\ \A x \in AttachLinks(g) :
                 /\ x.idx + 1 \in 1..Len(regp)
                 /\ regp[x.idx + 1].id = x.id

C13_Witness ==
    \E g \in Generated :
        /\ Len(g.art.maps) = 2
        /\ PlainMap(g.art.maps[1])
        /\ g.art.maps[1].internal
        /\ Len(g.art.progs) = 2
        /\ \E x \in Datasecs(g) :
             x.idx = 1 /\ x.scope = "Skel" /\ x.id = <<"d", "a", "t", "a">>
        /\ \E x \in AttachLinks(g) : x.idx = 1 /\ x.id = <<"q">>
        /\ Kind(g.items, "cfg_map")[1].flag = FALSE

====
